---- MODULE Spec2Model ----
(***************************************************************************)
(* SolidGPS integration: the API client, the location extractor, the      *)
(* scraped web login, the polling coordinator with its credential refresh, *)
(* and the re-authentication flow that shares the configuration entry.     *)
(*                                                                         *)
(* Conventions.  A Python value that may be None is a sequence: <<>> is    *)
(* None and <<x>> is x.  A JSON scalar is the string of its JSON text      *)
(* ("401" is the number 401, "'401'" the string "401"); a key that is      *)
(* missing from a JSON object (or null, which .get() does not tell apart)  *)
(* is Absent.                                                              *)
(***************************************************************************)
EXTENDS Integers, Sequences, FiniteSets, TLC

None == <<>>
Some(x) == <<x>>
Absent == "absent"

(***************************************************************************)
(* const.py                                                                *)
(***************************************************************************)
EVENT_MOTION_STARTED == "solidgps_motion_started"
EVENT_MOTION_STOPPED == "solidgps_motion_stopped"

\* The device identifier of the one configured entry and a second device
\* that an account may hold.
IMEI == "123"
OtherIMEI == "456"

(***************************************************************************)
(* Vendor data endpoint: what one HTTP GET can come back with.             *)
(***************************************************************************)
\* float(x) of a JSON string as the extractor applies it; <<>> is ValueError
\* or TypeError.  Values are whole numbers here.
PyFloat(raw) ==
    CASE raw = "0" -> Some(0)
      [] raw = "1" -> Some(1)
      [] raw = "2" -> Some(2)
      [] raw = "5" -> Some(5)
      [] raw = "-3" -> Some(-3)
      [] raw = "90" -> Some(90)
      [] raw = "1000" -> Some(1000)
      [] OTHER -> None

\* int(x): as float(x) on the whole-number strings of the model.
PyInt(raw) ==
    CASE raw = "0" -> Some(0)
      [] raw = "5" -> Some(5)
      [] raw = "1000" -> Some(1000)
      [] OTHER -> None

\* The JSON numbers that Python's conversions reject with OverflowError:
\* float() of an integer literal of 401 digits, int() of 1e999 (which
\* json.loads reads as the float inf).  The tables above cover the other
\* values the model hands to each conversion.
FloatOverflows(raw) == raw = "10**400"
IntOverflows(raw) == raw = "1e999"

\* One fix record of gps_data / cell_data.
Fix(lat, lon, sog, cog, utc, quality) ==
    [latitude |-> lat, longitude |-> lon, sog |-> sog, cog |-> cog,
     UTC |-> utc, quality |-> quality]

\* The device's record under Results: each list is missing (None) or a list.
Device(gps, cell) == [gps_data |-> gps, cell_data |-> cell]

FixMoving == Fix("1", "2", "5", "90", "1000", "3")
FixStill == Fix("1", "2", "0", "-", "1000", "3")
FixNoSpeed == Fix("2", "1", Absent, "", Absent, Absent)
FixBadLat == Fix("x", "2", "5", "0", "1000", "3")
FixHugeTime == Fix("1", "2", "5", "90", "1e999", "3")

\* The Results a poll of the model may receive: Results[imei] is missing
\* (None) or a device record.
PollResults ==
    { None,
      Some(Device(Some(<<FixMoving>>), Some(<<FixStill>>))),
      Some(Device(Some(<<FixStill, FixMoving>>), None)),
      Some(Device(Some(<<>>), Some(<<FixMoving>>))),
      Some(Device(None, Some(<<FixNoSpeed>>))),
      Some(Device(Some(<<>>), Some(<<>>))),
      Some(Device(Some(<<FixBadLat>>), Some(<<FixMoving>>))),
      Some(Device(Some(<<FixHugeTime>>), None)) }

\* The JSON body of a response: what json() makes of it, and for an object
\* its status field and its Results entry for the device.
JsonKinds == {"invalid", "emptybody", "emptyobject", "array", "object"}
PayloadStatuses == {Absent, "200", "401", "'401'", "500"}

Body(json, status, results) == [json |-> json, status |-> status, results |-> results]

Bodies ==
    { Body(j, Absent, None) : j \in JsonKinds \ {"object"} }
      \cup { Body("object", s, r) : s \in PayloadStatuses, r \in PollResults }

NetOutcomes == {"ok", "timeout", "clienterror"}
HttpStatuses == {200, 401, 500}

Responses == [net : NetOutcomes, http : HttpStatuses, body : Bodies]

(***************************************************************************)
(* api.py: SolidGPSApiClient.async_get_data                                *)
(***************************************************************************)
\* The result of one call: how it ends, the payload it returns, and the
\* number of HTTP GETs it issued.
FetchResult(kind, data) == [kind |-> kind, data |-> data, gets |-> 1]

\* As async_get_data, but taking an HTTP 401 for an authentication failure.
async_get_data_http401(resp) ==
    IF resp.net # "ok" THEN FetchResult("ApiError", None)
    ELSE IF resp.http = 401 THEN FetchResult("AuthError", None)
    ELSE IF resp.http # 200 THEN FetchResult("ApiError", None)
    ELSE IF resp.body.json \in {"invalid", "emptybody", "emptyobject"}
        THEN FetchResult("ApiError", None)
    ELSE IF resp.body.json = "array" THEN FetchResult("AttributeError", None)
    ELSE IF resp.body.status = "401" THEN FetchResult("AuthError", None)
    ELSE IF resp.body.status # "200" THEN FetchResult("ApiError", None)
    ELSE FetchResult("return", Some(resp.body))

async_get_data(resp) ==
    IF resp.net # "ok" THEN FetchResult("ApiError", None)
    ELSE IF resp.http # 200 THEN FetchResult("ApiError", None)
    ELSE IF resp.body.json = "invalid" THEN FetchResult("ApiError", None)
    ELSE IF resp.body.json \in {"emptybody", "emptyobject"}
        THEN FetchResult("ApiError", None)
    ELSE IF resp.body.json = "array"
        \* data.get on a value that is no dict
        THEN FetchResult("AttributeError", None)
    ELSE IF resp.body.status = "401" THEN FetchResult("AuthError", None)
    ELSE IF resp.body.status # "200" THEN FetchResult("ApiError", None)
    ELSE FetchResult("return", Some(resp.body))

\* Every result a call of async_get_data can have.
FetchResults == { async_get_data(resp) : resp \in Responses }

(***************************************************************************)
(* api.py: extract_location_data                                           *)
(***************************************************************************)
\* The first fix of a list that is present and non-empty, else None.
FirstOf(list) == IF list # None /\ Len(list[1]) > 0 THEN Some(list[1][1]) ELSE None

\* As the source tag of extract_location_data, but "gps" for every fix.
ChosenSource_always_gps(device) ==
    IF FirstOf(device.gps_data) # None \/ FirstOf(device.cell_data) # None
        THEN "gps" ELSE Absent

ChosenSource(device) ==
    IF FirstOf(device.gps_data) # None THEN "gps"
    ELSE IF FirstOf(device.cell_data) # None THEN "cell"
    ELSE Absent

\* As the choice of extract_location_data, but trying cell_data first.
ChosenEntry_cell_first(device) ==
    IF FirstOf(device.cell_data) # None THEN FirstOf(device.cell_data)
    ELSE FirstOf(device.gps_data)

ChosenEntry(device) ==
    IF FirstOf(device.gps_data) # None THEN FirstOf(device.gps_data)
    ELSE FirstOf(device.cell_data)

\* As the course of extract_location_data, but reading the markers as 0.
ParseCourse_marker_zero(cog) ==
    IF cog \in {"-", Absent, ""} THEN Some(0) ELSE PyFloat(cog)

ParseCourse(cog) == IF cog \in {"-", Absent, ""} THEN None ELSE PyFloat(cog)

\* The OverflowError that no except clause of extract_location_data names
\* leaves the function: from a coordinate, or once both coordinates are
\* parsed from the speed, the course or the fix time.
extract_raises(api_response, imei) ==
    LET results == IF imei = IMEI THEN api_response.results ELSE None
    IN  /\ results # None
        /\ ChosenEntry(results[1]) # None
        /\ LET entry == ChosenEntry(results[1])[1]
           IN  \/ FloatOverflows(entry.latitude)
               \/ /\ PyFloat(entry.latitude) # None
                  /\ \/ FloatOverflows(entry.longitude)
                     \/ /\ PyFloat(entry.longitude) # None
                        /\ \/ FloatOverflows(entry.sog)
                           \/ FloatOverflows(entry.cog)
                           \/ IntOverflows(entry.UTC)

extract_location_data(api_response, imei) ==
    LET results == IF imei = IMEI THEN api_response.results ELSE None
    IN  IF results = None THEN None
        ELSE LET device == results[1]
                 entry == ChosenEntry(device)
             IN  IF entry = None THEN None
                 ELSE IF PyFloat(entry[1].latitude) = None
                         \/ PyFloat(entry[1].longitude) = None THEN None
                 ELSE Some([latitude |-> PyFloat(entry[1].latitude)[1],
                            longitude |-> PyFloat(entry[1].longitude)[1],
                            speed |-> PyFloat(entry[1].sog),
                            course |-> ParseCourse(entry[1].cog),
                            utc |-> PyInt(entry[1].UTC),
                            quality |-> entry[1].quality,
                            source |-> ChosenSource(device)])

(***************************************************************************)
(* models.py: SolidGPSData                                                 *)
(***************************************************************************)
SolidGPSData(lat, lon, speed, course, utc, quality, source) ==
    [latitude |-> lat, longitude |-> lon, speed |-> speed, course |-> course,
     utc |-> utc, quality |-> quality, source |-> source]

EmptyData == SolidGPSData(None, None, None, None, None, Absent, Absent)

(***************************************************************************)
(* api.py: SolidGPSAuthenticator                                           *)
(***************************************************************************)
\* What the vendor's three login endpoints answer during one login.
\*   page: the login page GET times out, or its HTML has or lacks the nonce.
\*   post: the login POST times out, or its body is no JSON, or JSON that is
\*         no object (WordPress answers -1 or 0 to a bad nonce), or an object
\*         whose success flag is falsy or truthy.
\*   dash: the dashboard GET times out, or its HTML gives account_info and
\*         device_info as _parse_js_object returns them: None, or the object.
AccountInfo(account_id, auth_code) == [AccountID |-> account_id, AuthCode |-> auth_code]

\* str(x) of a JSON string value: its text without the quotes.
PyStr(json) ==
    CASE json = "'A1'" -> "A1"
      [] json = "'A2'" -> "A2"
      [] json = "'c1'" -> "c1"
      [] json = "'c2'" -> "c2"
      [] json = "''" -> ""
      [] OTHER -> json

\* bool(x) of a JSON value or of a missing key.
Truthy(json) == json \notin {Absent, "''", "0", "null", "false"}

\* account_info: not found or no JSON; an object with neither key, with one
\* of them, with an empty AccountID; and the objects of two accounts.
AccountInfos ==
    { None,
      Some(AccountInfo(Absent, Absent)),
      Some(AccountInfo("'A1'", Absent)),
      Some(AccountInfo(Absent, "'c1'")),
      Some(AccountInfo("''", "'c1'")),
      Some(AccountInfo("'A1'", "'c1'")),
      Some(AccountInfo("'A2'", "'c2'")) }

\* device_info as the set of the device identifiers it is keyed by.
DeviceInfos == {None, Some({}), Some({IMEI}), Some({OtherIMEI})}

PageOutcomes == {"timeout", "nononce", "nonce"}
PostOutcomes == {"timeout", "invalidjson", "notobject", "rejected", "success"}

LoginBehaviours ==
    [page : PageOutcomes, post : PostOutcomes, dashnet : {"ok", "timeout"},
     account_info : AccountInfos, device_info : DeviceInfos]

LoginResult(kind, account_id, auth_code, devices, requests) ==
    [kind |-> kind, account_id |-> account_id, auth_code |-> auth_code,
     devices |-> devices, requests |-> requests]

LoginFailure(kind, requests) == LoginResult(kind, Absent, Absent, {}, requests)

\* An account_info object that holds no key at all ({} is falsy).
EmptyObject(info) == info.AccountID = Absent /\ info.AuthCode = Absent

\* As _get_login_nonce, but going on without a nonce.
get_login_nonce_unchecked(b) ==
    CASE b.page = "timeout" -> "TimeoutError"
      [] OTHER -> "ok"

\* _get_login_nonce: the nonce, or the error it raises.
get_login_nonce(b) ==
    CASE b.page = "timeout" -> "TimeoutError"
      [] b.page = "nononce" -> "LoginError"
      [] OTHER -> "ok"

\* _submit_login: returns, or the error it raises.
submit_login(b) ==
    CASE b.post = "timeout" -> "TimeoutError"
      [] b.post = "invalidjson" -> "ValueError"
      [] b.post = "notobject" -> "AttributeError"
      [] b.post = "rejected" -> "AuthError"
      [] OTHER -> "ok"

\* _extract_dashboard_data: the login data, or the error it raises.
extract_dashboard_data(b, requests) ==
    IF b.dashnet = "timeout" THEN LoginFailure("TimeoutError", requests)
    ELSE IF b.account_info = None \/ EmptyObject(b.account_info[1])
        THEN LoginFailure("LoginError", requests)
    ELSE IF b.device_info = None \/ b.device_info[1] = {}
        THEN LoginFailure("LoginError", requests)
    ELSE IF ~Truthy(b.account_info[1].AccountID) \/ ~Truthy(b.account_info[1].AuthCode)
        THEN LoginFailure("LoginError", requests)
    ELSE LoginResult("return", PyStr(b.account_info[1].AccountID),
                     PyStr(b.account_info[1].AuthCode), b.device_info[1], requests)

\* The except clauses of async_login: what an error of a step leaves as.
LoginExcept(err) ==
    CASE err \in {"AuthError", "LoginError"} -> err
      [] err \in {"TimeoutError", "ClientError"} -> "LoginError"
      [] OTHER -> err

\* The vendor's answers b are what it makes of the email and password sent.
async_login(b) ==
    LET r1 == <<"GET login">>
        r2 == <<"GET login", "POST login">>
        r3 == <<"GET login", "POST login", "GET dashboard">>
    IN  IF get_login_nonce(b) # "ok"
            THEN LoginFailure(LoginExcept(get_login_nonce(b)), r1)
        ELSE IF submit_login(b) # "ok"
            THEN LoginFailure(LoginExcept(submit_login(b)), r2)
        ELSE LET d == extract_dashboard_data(b, r3)
             IN  [d EXCEPT !.kind = LoginExcept(d.kind)]

\* Every result a call of async_login can have.
LoginResults == { async_login(b) : b \in LoginBehaviours }

(***************************************************************************)
(* api.py: SolidGPSAuthenticator._parse_js_object                          *)
(***************************************************************************)
\* The dashboard HTML as a sequence of tokens: "A" and "D" stand for the
\* text `var account_info =` and `var device_info =` up to the brace, "n"
\* for the member key `"n":` and the others for themselves.
HtmlTokens == {"A", "D", "{", "}", "n", ","}
MaxHtmlLen == 6
Htmls == UNION { [1..n -> HtmlTokens] : n \in 0..MaxHtmlLen }
JsVarNames == {"A", "D"}

\* A parsed JSON object of the model: a dict that has the key n or not,
\* and under n another object.
JsonObject(n) == [n |-> n]
JsonFail == [ok |-> FALSE, val |-> JsonObject(None), rest |-> <<>>]

\* json.loads by recursive descent: an object is {} or { member, ... }, a
\* member is the key n and an object; a repeated key keeps its last value.
RECURSIVE JsonParseObject(_), JsonParseMembers(_)
JsonParseObject(s) ==
    IF Len(s) < 2 \/ s[1] # "{" THEN JsonFail
    ELSE IF s[2] = "}"
        THEN [ok |-> TRUE, val |-> JsonObject(None), rest |-> Tail(Tail(s))]
    ELSE JsonParseMembers(Tail(s))

JsonParseMembers(s) ==
    IF s = <<>> \/ s[1] # "n" THEN JsonFail
    ELSE LET o == JsonParseObject(Tail(s))
         IN  IF ~o.ok \/ o.rest = <<>> THEN JsonFail
             ELSE IF o.rest[1] = "}"
                 THEN [ok |-> TRUE, val |-> JsonObject(Some(o.val)),
                       rest |-> Tail(o.rest)]
             ELSE IF o.rest[1] = "," THEN JsonParseMembers(Tail(o.rest))
             ELSE JsonFail

\* json.loads(json_str): the object, or None for JSONDecodeError.
json_loads(json_str) ==
    LET p == JsonParseObject(json_str)
    IN  IF p.ok /\ p.rest = <<>> THEN Some(p.val) ELSE None

\* re.search: the positions of the brace that ends a match; the leftmost
\* match is the one taken.
MatchEnds(html, var_name) ==
    { i \in 2..Len(html) : html[i - 1] = var_name /\ html[i] = "{" }

SetMin(S) == CHOOSE x \in S : \A y \in S : x <= y

\* As the loop of _parse_js_object, but ending at the first closing brace.
RECURSIVE ScanBraces_first_close(_, _, _, _)
ScanBraces_first_close(html, start, i, depth) ==
    IF i > Len(html) THEN None
    ELSE IF html[i] = "}" THEN json_loads(SubSeq(html, start, i))
    ELSE ScanBraces_first_close(html, start, i + 1, depth)

\* The loop of _parse_js_object from position i on with the depth so far.
RECURSIVE ScanBraces(_, _, _, _)
ScanBraces(html, start, i, depth) ==
    IF i > Len(html) THEN None
    ELSE IF html[i] = "{" THEN ScanBraces(html, start, i + 1, depth + 1)
    ELSE IF html[i] = "}"
        THEN IF depth - 1 = 0 THEN json_loads(SubSeq(html, start, i))
             ELSE ScanBraces(html, start, i + 1, depth - 1)
    ELSE ScanBraces(html, start, i + 1, depth)

parse_js_object(html, var_name) ==
    IF MatchEnds(html, var_name) = {} THEN None
    ELSE LET start == SetMin(MatchEnds(html, var_name))
         IN  ScanBraces(html, start, start, 0)

(***************************************************************************)
(* State                                                                   *)
(***************************************************************************)
VARIABLES
    entry,          \* the configuration entry: [version, data]
    client,         \* SolidGPSApiClient: [account_id, auth_code]
    coord,          \* "none": no Coordinator; "setup": in its first refresh;
                    \* "loaded": stored in hass.data
    previous_speed, \* SolidGPSCoordinator._previous_speed
    data,           \* SolidGPSCoordinator.data: None, or the snapshot
    pc,             \* where the poll is suspended: "idle", "fetch1",
                    \* "login", "fetch2"
    pollLogin,      \* the result of the poll's login, on its way back
    flow,           \* the re-authentication flow: "closed", "form", "login"
    flowInput,      \* the email and password the user submitted
    flowLogin,      \* the result of the flow's login, on its way back
    flowError,      \* errors["base"] of the form last shown
    reloadPending,  \* a reload of the entry is scheduled
    outcome,        \* how the latest poll ended ("running" while in flight)
    events,         \* the events the current poll fired on the bus
    nFetch,         \* calls of async_get_data started in the current poll
    nGet,           \* HTTP GETs those calls issued
    nLogin,         \* calls of async_login started in the current poll
    getCreds,       \* the account_id and auth_code the GET in flight carries
    lastFetch,      \* how the latest call of async_get_data in the poll ended
    fnIn,           \* the input of the function applied on its own
    fnOut,          \* and its result
    latestLogin,    \* history: the account_id and auth_code of the login
                    \* the vendor answered last among those whose result
                    \* is stored on its return
    created,        \* the entries the setup flow created beside entry
    setupFlow,      \* the setup flow: its step, _login_data, and the error
                    \* or abort reason it last showed
    coordinators,   \* hass.data[DOMAIN] for the created entries: the
                    \* positions in created that hold a Coordinator
    lastEvent       \* history: the motion event the Coordinator fired
                    \* last, "none" before its first

vars == <<entry, client, coord, previous_speed, data, pc, pollLogin, flow,
          flowInput, flowLogin, flowError, reloadPending, outcome, events, nFetch, nGet,
          nLogin, getCreds, lastFetch, fnIn, fnOut, latestLogin, created,
          setupFlow, coordinators, lastEvent>>

\* The variables no step of a poll, of the entry or of the flow changes
\* but the vendor's answer to a login.
aux == <<fnIn, fnOut, latestLogin, created, setupFlow, coordinators>>

Creds(account_id, auth_code) == [account_id |-> account_id, auth_code |-> auth_code]
NoCreds == Creds(Absent, Absent)

\* The name the setup flow gives the device: its nickname, or "SolidGPS"
\* and the last four digits of the device identifier.
DeviceName == "SolidGPS 0123"

EntryData(imei, email, password, account_id, auth_code) ==
    [imei |-> imei, email |-> email, password |-> password,
     account_id |-> account_id, auth_code |-> auth_code,
     device_name |-> DeviceName]

\* The emails and passwords a user types into the re-authentication form.
FormEmails == {"e2"}
FormPasswords == {"p2", ""}

\* An entry of configuration version 1 holds no email and no password; an
\* entry the setup flow created holds both.
InitialEntries ==
    { [version |-> 1, data |-> EntryData(IMEI, Absent, Absent, "A0", "c0")],
      [version |-> 2, data |-> EntryData(IMEI, "e1", "p1", "A0", "c0")] }

Init ==
    /\ entry \in InitialEntries
    /\ client = NoCreds
    /\ coord = "none"
    /\ previous_speed = None
    /\ data = None
    /\ pc = "idle"
    /\ pollLogin = None
    /\ flow = "closed"
    /\ flowInput = [email |-> "", password |-> ""]
    /\ flowLogin = None
    /\ flowError = ""
    /\ reloadPending = FALSE
    /\ outcome = "none"
    /\ events = <<>>
    /\ nFetch = 0
    /\ nGet = 0
    /\ nLogin = 0
    /\ getCreds = NoCreds
    /\ lastFetch = "none"
    /\ fnIn = None
    /\ fnOut = None
    /\ latestLogin = NoCreds
    /\ created = <<>>
    /\ setupFlow = [step |-> "none", login_data |-> None, errors |-> ""]
    /\ coordinators = {}
    /\ lastEvent = "none"

(***************************************************************************)
(* coordinator.py: SolidGPSCoordinator                                     *)
(***************************************************************************)
\* not x, for a value read with .get() from the entry's data
Falsy(x) == x \in {Absent, ""}

IsMoving(speed) == speed # None /\ speed[1] > 0

\* As _fire_motion_events, but firing motion-started whenever the device
\* moves.
fire_motion_events_while_moving(prev, current_speed) ==
    IF IsMoving(current_speed) THEN <<EVENT_MOTION_STARTED>>
    ELSE IF IsMoving(prev) THEN <<EVENT_MOTION_STOPPED>>
    ELSE <<>>

\* _fire_motion_events: the events fired, in order.
fire_motion_events(prev, current_speed) ==
    LET was_moving == IsMoving(prev)
        is_moving == IsMoving(current_speed)
    IN  IF is_moving /\ ~was_moving THEN <<EVENT_MOTION_STARTED>>
        ELSE IF was_moving /\ ~is_moving THEN <<EVENT_MOTION_STOPPED>>
        ELSE <<>>

\* _async_update_data from the extraction on: the snapshot returned, the
\* events fired and the speed remembered.
update_from_response(response, prev) ==
    LET raw == extract_location_data(response, IMEI)
    IN  IF raw = None
            THEN [data |-> EmptyData, events |-> <<>>, previous_speed |-> prev]
        ELSE [data |-> SolidGPSData(Some(raw[1].latitude), Some(raw[1].longitude),
                                    raw[1].speed, raw[1].course, raw[1].utc,
                                    raw[1].quality, raw[1].source),
              events |-> fire_motion_events(prev, raw[1].speed),
              previous_speed |-> raw[1].speed]

\* The poll ends.  A returned snapshot becomes the Coordinator's data and an
\* exception leaves the data as it was; the first refresh of a setup stores
\* the Coordinator only when it returns (__init__.py, lines 47 to 50);
\* ConfigEntryAuthFailed opens the re-authentication form.
PollEnd(result, newdata) ==
    /\ outcome' = result
    /\ pc' = "idle"
    /\ data' = newdata
    /\ coord' = IF coord = "setup"
                    THEN (IF result = "return" THEN "loaded" ELSE "none")
                    ELSE coord
    /\ flow' = IF result = "ConfigEntryAuthFailed" /\ flow = "closed"
                   THEN "form" ELSE flow
    /\ getCreds' = NoCreds
    /\ UNCHANGED <<flowInput, flowLogin, flowError, reloadPending>>

Raise(exc) ==
    /\ PollEnd(exc, data)
    /\ UNCHANGED <<previous_speed, events, lastEvent>>

\* An error of the extraction leaves _async_update_data as it is.
Return(response) ==
    LET u == update_from_response(response, previous_speed)
    IN  IF extract_raises(response, IMEI) THEN Raise("OverflowError")
        ELSE /\ previous_speed' = u.previous_speed
             /\ events' = events \o u.events
             /\ lastEvent' = IF u.events = <<>> THEN lastEvent
                              ELSE u.events[Len(u.events)]
             /\ PollEnd("return", Some(u.data))

\* A poll begins: async_get_data is called and its GET carries the client's
\* credentials.
BeginPoll ==
    /\ pc' = "fetch1"
    /\ outcome' = "running"
    /\ events' = <<>>
    /\ nFetch' = 1
    /\ nGet' = 0
    /\ nLogin' = 0
    /\ pollLogin' = None
    /\ lastFetch' = "none"
    /\ UNCHANGED aux

\* The scheduled refresh of the loaded Coordinator (UPDATE_INTERVAL), one
\* poll in flight at a time.
Tick ==
    /\ UNCHANGED lastEvent
    /\ coord = "loaded"
    /\ pc = "idle"
    /\ BeginPoll
    /\ getCreds' = client
    /\ UNCHANGED <<entry, client, coord, previous_speed, data, flow, flowInput,
                   flowLogin, flowError, reloadPending>>

\* As begin_auth_refresh, but checking the email alone.
begin_auth_refresh_email_only ==
    IF Falsy(entry.data.email)
        THEN /\ Raise("ConfigEntryAuthFailed")
             /\ UNCHANGED <<entry, client, pollLogin, nFetch, nLogin>>
        ELSE /\ pc' = "login"
             /\ nLogin' = nLogin + 1
             /\ pollLogin' = None
             /\ UNCHANGED <<entry, client, coord, previous_speed, data, flow,
                            flowInput, flowLogin, flowError, reloadPending,
                            outcome, events, nFetch, getCreds, lastEvent>>

\* _handle_auth_refresh up to the login call.
begin_auth_refresh ==
    IF Falsy(entry.data.email) \/ Falsy(entry.data.password)
        THEN /\ Raise("ConfigEntryAuthFailed")
             /\ UNCHANGED <<entry, client, pollLogin, nFetch, nLogin>>
        ELSE /\ pc' = "login"
             /\ nLogin' = nLogin + 1
             /\ pollLogin' = None
             /\ UNCHANGED <<entry, client, coord, previous_speed, data, flow,
                            flowInput, flowLogin, flowError, reloadPending, outcome, events,
                            nFetch, getCreds, lastEvent>>

\* As handle_first_fetch, but clearing the snapshot before UpdateFailed.
handle_first_fetch_clears(r) ==
    /\ nGet' = nGet + r.gets
    /\ lastFetch' = r.kind
    /\ UNCHANGED aux
    /\ CASE r.kind = "return" ->
              /\ Return(r.data[1])
              /\ UNCHANGED <<entry, client, pollLogin, nFetch, nLogin>>
         [] r.kind = "AuthError" -> begin_auth_refresh
         [] r.kind = "ApiError" ->
              /\ PollEnd("UpdateFailed", Some(EmptyData))
              /\ UNCHANGED <<previous_speed, events, lastEvent>>
              /\ UNCHANGED <<entry, client, pollLogin, nFetch, nLogin>>
         [] OTHER ->
              /\ Raise(r.kind)
              /\ UNCHANGED <<entry, client, pollLogin, nFetch, nLogin>>

\* _async_update_data, on the result r of its call of async_get_data.
handle_first_fetch(r) ==
    /\ nGet' = nGet + r.gets
    /\ lastFetch' = r.kind
    /\ UNCHANGED aux
    /\ CASE r.kind = "return" ->
              /\ Return(r.data[1])
              /\ UNCHANGED <<entry, client, pollLogin, nFetch, nLogin>>
         [] r.kind = "AuthError" -> begin_auth_refresh
         [] r.kind = "ApiError" ->
              /\ Raise("UpdateFailed")
              /\ UNCHANGED <<entry, client, pollLogin, nFetch, nLogin>>
         [] OTHER ->
              /\ Raise(r.kind)
              /\ UNCHANGED <<entry, client, pollLogin, nFetch, nLogin>>

FetchReturn ==
    /\ pc = "fetch1"
    /\ \E r \in FetchResults : handle_first_fetch(r)

\* The vendor answers the poll's login; the result is on its way back.
LoginRespond ==
    /\ UNCHANGED lastEvent
    /\ pc = "login"
    /\ pollLogin = None
    /\ \E r \in LoginResults :
          /\ pollLogin' = Some(r)
          /\ latestLogin' = IF r.kind = "return"
                                THEN Creds(r.account_id, r.auth_code)
                                ELSE latestLogin
    /\ UNCHANGED <<entry, client, coord, previous_speed, data, pc, flow,
                   flowInput, flowLogin, flowError, reloadPending, outcome, events, nFetch,
                   nGet, nLogin, getCreds, lastFetch>>
    /\ UNCHANGED <<fnIn, fnOut, created, setupFlow, coordinators>>

\* As handle_login, but without async_update_entry.
handle_login_not_persisted(r) ==
    CASE r.kind = "return" ->
          /\ client' = Creds(r.account_id, r.auth_code)
          /\ pc' = "fetch2"
          /\ nFetch' = nFetch + 1
          /\ getCreds' = client'
          /\ UNCHANGED <<entry, coord, previous_speed, data, flow, flowInput,
                         flowLogin, flowError, reloadPending, outcome, events,
                         nGet, nLogin>>
      [] r.kind = "AuthError" ->
          /\ Raise("ConfigEntryAuthFailed")
          /\ UNCHANGED <<entry, client, nFetch, nGet, nLogin>>
      [] r.kind = "LoginError" ->
          /\ Raise("UpdateFailed")
          /\ UNCHANGED <<entry, client, nFetch, nGet, nLogin>>
      [] OTHER ->
          /\ Raise(r.kind)
          /\ UNCHANGED <<entry, client, nFetch, nGet, nLogin>>

\* As handle_login, but with LoginError caught by the AuthError clause.
handle_login_all_fatal(r) ==
    CASE r.kind = "return" ->
          /\ client' = Creds(r.account_id, r.auth_code)
          /\ entry' = [entry EXCEPT !.data.account_id = r.account_id,
                                    !.data.auth_code = r.auth_code]
          /\ pc' = "fetch2"
          /\ nFetch' = nFetch + 1
          /\ getCreds' = client'
          /\ UNCHANGED <<coord, previous_speed, data, flow, flowInput,
                         flowLogin, flowError, reloadPending, outcome, events,
                         nGet, nLogin>>
      [] r.kind \in {"AuthError", "LoginError"} ->
          /\ Raise("ConfigEntryAuthFailed")
          /\ UNCHANGED <<entry, client, nFetch, nGet, nLogin>>
      [] OTHER ->
          /\ Raise(r.kind)
          /\ UNCHANGED <<entry, client, nFetch, nGet, nLogin>>

\* As handle_login, but writing the entry's data anew from the login alone.
handle_login_entry_rebuilt(r) ==
    CASE r.kind = "return" ->
          /\ client' = Creds(r.account_id, r.auth_code)
          /\ entry' = [entry EXCEPT !.data.account_id = r.account_id,
                                    !.data.auth_code = r.auth_code,
                                    !.data.device_name = Absent]
          /\ pc' = "fetch2"
          /\ nFetch' = nFetch + 1
          /\ getCreds' = client'
          /\ UNCHANGED <<coord, previous_speed, data, flow, flowInput,
                         flowLogin, flowError, reloadPending, outcome, events,
                         nGet, nLogin>>
      [] r.kind = "AuthError" ->
          /\ Raise("ConfigEntryAuthFailed")
          /\ UNCHANGED <<entry, client, nFetch, nGet, nLogin>>
      [] r.kind = "LoginError" ->
          /\ Raise("UpdateFailed")
          /\ UNCHANGED <<entry, client, nFetch, nGet, nLogin>>
      [] OTHER ->
          /\ Raise(r.kind)
          /\ UNCHANGED <<entry, client, nFetch, nGet, nLogin>>

\* _handle_auth_refresh, on the result r of its call of async_login.
handle_login(r) ==
    CASE r.kind = "return" ->
          /\ client' = Creds(r.account_id, r.auth_code)
          /\ entry' = [entry EXCEPT !.data.account_id = r.account_id,
                                    !.data.auth_code = r.auth_code]
          /\ pc' = "fetch2"
          /\ nFetch' = nFetch + 1
          /\ getCreds' = client'
          /\ UNCHANGED <<coord, previous_speed, data, flow, flowInput, flowLogin, flowError,
                         reloadPending, outcome, events, nGet, nLogin>>
      [] r.kind = "AuthError" ->
          /\ Raise("ConfigEntryAuthFailed")
          /\ UNCHANGED <<entry, client, nFetch, nGet, nLogin>>
      [] r.kind = "LoginError" ->
          /\ Raise("UpdateFailed")
          /\ UNCHANGED <<entry, client, nFetch, nGet, nLogin>>
      [] OTHER ->
          /\ Raise(r.kind)
          /\ UNCHANGED <<entry, client, nFetch, nGet, nLogin>>

LoginReturn ==
    /\ UNCHANGED lastEvent
    /\ pc = "login"
    /\ pollLogin # None
    /\ handle_login(pollLogin[1])
    /\ pollLogin' = None
    /\ UNCHANGED <<lastFetch, aux>>

\* As handle_retry_fetch, but with AuthError caught by the ApiError clause.
handle_retry_fetch_all_transient(r) ==
    /\ nGet' = nGet + r.gets
    /\ lastFetch' = r.kind
    /\ UNCHANGED aux
    /\ CASE r.kind = "return" -> Return(r.data[1])
         [] r.kind \in {"AuthError", "ApiError"} -> Raise("UpdateFailed")
         [] OTHER -> Raise(r.kind)
    /\ UNCHANGED <<entry, client, pollLogin, nFetch, nLogin>>

\* As handle_retry_fetch, but a failed retry drops the client's refreshed
\* credentials.
handle_retry_fetch_rollback(r) ==
    /\ nGet' = nGet + r.gets
    /\ lastFetch' = r.kind
    /\ UNCHANGED aux
    /\ CASE r.kind = "return" -> Return(r.data[1]) /\ UNCHANGED client
         [] r.kind = "AuthError" ->
              Raise("ConfigEntryAuthFailed") /\ client' = NoCreds
         [] r.kind = "ApiError" -> Raise("UpdateFailed") /\ client' = NoCreds
         [] OTHER -> Raise(r.kind) /\ UNCHANGED client
    /\ UNCHANGED <<entry, pollLogin, nFetch, nLogin>>

\* _handle_auth_refresh, on the result r of its retried async_get_data.
handle_retry_fetch(r) ==
    /\ nGet' = nGet + r.gets
    /\ lastFetch' = r.kind
    /\ UNCHANGED aux
    /\ CASE r.kind = "return" -> Return(r.data[1])
         [] r.kind = "AuthError" -> Raise("ConfigEntryAuthFailed")
         [] r.kind = "ApiError" -> Raise("UpdateFailed")
         [] OTHER -> Raise(r.kind)
    /\ UNCHANGED <<entry, client, pollLogin, nFetch, nLogin>>

RetryReturn ==
    /\ pc = "fetch2"
    /\ \E r \in FetchResults : handle_retry_fetch(r)

(***************************************************************************)
(* __init__.py: migration, setup and unload of the entry                   *)
(***************************************************************************)
\* async_migrate_entry: only the version changes.
MigrateEntry ==
    /\ UNCHANGED lastEvent
    /\ entry.version < 2
    /\ entry' = [entry EXCEPT !.version = 2]
    /\ UNCHANGED <<client, coord, previous_speed, data, pc, pollLogin, flow,
                   flowInput, flowLogin, flowError, reloadPending, outcome, events, nFetch,
                   nGet, nLogin, getCreds, lastFetch>>
    /\ UNCHANGED aux

\* async_setup_entry up to its first refresh: a client with the entry's
\* credentials, a Coordinator with no data and no remembered speed, and the
\* first poll under way.
setup_entry ==
    /\ lastEvent' = "none"
    /\ client' = Creds(entry.data.account_id, entry.data.auth_code)
    /\ coord' = "setup"
    /\ previous_speed' = None
    /\ data' = None
    /\ BeginPoll
    /\ getCreds' = client'
    /\ UNCHANGED <<entry, flow, flowInput, flowLogin, flowError>>

SetupEntry ==
    /\ coord = "none"
    /\ pc = "idle"
    /\ entry.version = 2
    /\ ~reloadPending
    /\ setup_entry
    /\ UNCHANGED reloadPending

\* async_unload_entry: the Coordinator is dropped, and its client and
\* snapshot with it.
UnloadEntry ==
    /\ lastEvent' = "none"
    /\ coord = "loaded"
    /\ pc = "idle"
    /\ ~reloadPending
    /\ coord' = "none"
    /\ client' = NoCreds
    /\ previous_speed' = None
    /\ data' = None
    /\ UNCHANGED <<entry, pc, pollLogin, flow, flowInput, flowLogin, flowError,
                   reloadPending, outcome, events, nFetch, nGet, nLogin,
                   getCreds, lastFetch>>
    /\ UNCHANGED aux

\* The reload a successful re-authentication schedules: unload, then setup.
Reload ==
    /\ reloadPending
    /\ pc = "idle"
    /\ setup_entry
    /\ reloadPending' = FALSE

(***************************************************************************)
(* config_flow.py: the re-authentication flow                              *)
(***************************************************************************)
\* The user submits the form: async_step_reauth_confirm up to the login call.
ReauthSubmit ==
    /\ UNCHANGED lastEvent
    /\ flow = "form"
    /\ \E email \in FormEmails, password \in FormPasswords :
          flowInput' = [email |-> email, password |-> password]
    /\ flow' = "login"
    /\ flowLogin' = None
    /\ UNCHANGED <<entry, client, coord, previous_speed, data, pc, pollLogin,
                   flowError, reloadPending, outcome, events, nFetch, nGet,
                   nLogin, getCreds, lastFetch>>
    /\ UNCHANGED aux

\* The vendor answers the flow's login; the result is on its way back.
ReauthLoginRespond ==
    /\ UNCHANGED lastEvent
    /\ flow = "login"
    /\ flowLogin = None
    /\ \E r \in LoginResults :
          /\ flowLogin' = Some(r)
          /\ latestLogin' = IF r.kind = "return" /\ entry.data.imei \in r.devices
                                THEN Creds(r.account_id, r.auth_code)
                                ELSE latestLogin
    /\ UNCHANGED <<entry, client, coord, previous_speed, data, pc, pollLogin,
                   flow, flowInput, flowError, reloadPending, outcome, events,
                   nFetch, nGet, nLogin, getCreds, lastFetch>>
    /\ UNCHANGED <<fnIn, fnOut, created, setupFlow, coordinators>>

NoInput == [email |-> "", password |-> ""]

ShowForm(error) ==
    /\ flow' = "form"
    /\ flowError' = error
    /\ UNCHANGED <<entry, reloadPending>>

\* As reauth_confirm, but storing the new tokens without the new password.
reauth_confirm_keeps_password(r) ==
    CASE r.kind = "AuthError" -> ShowForm("invalid_auth")
      [] r.kind = "LoginError" -> ShowForm("cannot_connect")
      [] r.kind \notin {"return", "AuthError", "LoginError"} -> ShowForm("unknown")
      [] OTHER ->
            IF entry.data.imei \notin r.devices
                THEN ShowForm("device_not_found")
                ELSE /\ entry' = [entry EXCEPT
                                    !.data.email = flowInput.email,
                                    !.data.account_id = r.account_id,
                                    !.data.auth_code = r.auth_code]
                     /\ reloadPending' = TRUE
                     /\ flow' = "closed"
                     /\ flowError' = ""

\* As reauth_confirm, but without looking for the entry's device among the
\* account's devices.
reauth_confirm_any_account(r) ==
    CASE r.kind = "AuthError" -> ShowForm("invalid_auth")
      [] r.kind = "LoginError" -> ShowForm("cannot_connect")
      [] r.kind \notin {"return", "AuthError", "LoginError"} -> ShowForm("unknown")
      [] OTHER ->
            /\ entry' = [entry EXCEPT
                            !.data.email = flowInput.email,
                            !.data.password = flowInput.password,
                            !.data.account_id = r.account_id,
                            !.data.auth_code = r.auth_code]
            /\ reloadPending' = TRUE
            /\ flow' = "closed"
            /\ flowError' = ""

\* async_step_reauth_confirm, on the result r of its call of async_login.
reauth_confirm(r) ==
    CASE r.kind = "AuthError" -> ShowForm("invalid_auth")
      [] r.kind = "LoginError" -> ShowForm("cannot_connect")
      [] r.kind \notin {"return", "AuthError", "LoginError"} -> ShowForm("unknown")
      [] OTHER ->
            IF entry.data.imei \notin r.devices
                THEN ShowForm("device_not_found")
                ELSE /\ entry' = [entry EXCEPT
                                    !.data.email = flowInput.email,
                                    !.data.password = flowInput.password,
                                    !.data.account_id = r.account_id,
                                    !.data.auth_code = r.auth_code]
                     /\ reloadPending' = TRUE
                     /\ flow' = "closed"
                     /\ flowError' = ""

ReauthLoginReturn ==
    /\ UNCHANGED lastEvent
    /\ flow = "login"
    /\ flowLogin # None
    /\ reauth_confirm(flowLogin[1])
    /\ flowLogin' = None
    /\ flowInput' = NoInput
    /\ UNCHANGED <<client, coord, previous_speed, data, pc, pollLogin,
                   outcome, events, nFetch, nGet, nLogin, getCreds, lastFetch>>
    /\ UNCHANGED aux

(***************************************************************************)
(* The integration                                                         *)
(***************************************************************************)
Next ==
    \/ MigrateEntry
    \/ SetupEntry
    \/ UnloadEntry
    \/ Reload
    \/ Tick
    \/ FetchReturn
    \/ LoginRespond
    \/ LoginReturn
    \/ RetryReturn
    \/ ReauthSubmit
    \/ ReauthLoginRespond
    \/ ReauthLoginReturn

Spec == Init /\ [][Next]_vars

(***************************************************************************)
(* A single function applied on its own to every input of its domain.     *)
(***************************************************************************)
CallFetch ==
    /\ \E resp \in Responses :
          /\ fnIn' = Some(resp)
          /\ fnOut' = Some(async_get_data(resp))
    /\ UNCHANGED <<entry, client, coord, previous_speed, data, pc, pollLogin,
                   flow, flowInput, flowLogin, flowError, reloadPending, outcome, events,
                   nFetch, nGet, nLogin, getCreds, lastFetch, latestLogin,
                   created, setupFlow, coordinators, lastEvent>>

SpecFetch == Init /\ [][CallFetch]_vars

CallLogin ==
    /\ \E b \in LoginBehaviours :
          /\ fnIn' = Some(b)
          /\ fnOut' = Some(async_login(b))
    /\ UNCHANGED <<entry, client, coord, previous_speed, data, pc, pollLogin,
                   flow, flowInput, flowLogin, flowError, reloadPending, outcome, events,
                   nFetch, nGet, nLogin, getCreds, lastFetch, latestLogin,
                   created, setupFlow, coordinators, lastEvent>>

SpecLogin == Init /\ [][CallLogin]_vars

CallParse ==
    /\ fnIn = None
    /\ \E html \in Htmls, var_name \in JsVarNames :
          /\ fnIn' = Some([html |-> html, var_name |-> var_name])
          /\ fnOut' = Some(parse_js_object(html, var_name))
    /\ UNCHANGED <<entry, client, coord, previous_speed, data, pc, pollLogin,
                   flow, flowInput, flowLogin, flowError, reloadPending, outcome, events,
                   nFetch, nGet, nLogin, getCreds, lastFetch, latestLogin,
                   created, setupFlow, coordinators, lastEvent>>

SpecParse == Init /\ [][CallParse]_vars

\* The values a field of a fix record takes, the fix records made of them
\* and the device records that hold them: a list is missing, empty, or a
\* fix followed or not by another.
LatValues == {"1", "x", Absent}
LonValues == {"2", "x", Absent}
SogValues == {"5", "0", "x", Absent, "10**400"}
CogValues == {"90", "0", "-", "", "x", Absent}
UtcValues == {"1000", "x", Absent, "1e999"}
QualityValues == {"3", Absent}

ExtractFixes ==
    { Fix(lat, lon, sog, cog, utc, q) :
        lat \in LatValues, lon \in LonValues, sog \in SogValues,
        cog \in CogValues, utc \in UtcValues, q \in QualityValues }

FixLists(fixes) ==
    {None, Some(<<>>)} \cup { Some(<<f>>) : f \in fixes }
      \cup { Some(<<f, FixStill>>) : f \in fixes }

ExtractDevices ==
    { Device(g, c) : g \in FixLists(ExtractFixes), c \in FixLists({FixMoving, FixBadLat}) }
      \cup { Device(g, c) : g \in {None, Some(<<>>)}, c \in FixLists(ExtractFixes) }

ExtractResults == {None} \cup { Some(d) : d \in ExtractDevices }

CallExtract ==
    /\ fnIn = None
    /\ \E results \in ExtractResults, imei \in {IMEI, OtherIMEI} :
          LET api_response == Body("object", "200", results)
          IN  /\ fnIn' = Some([results |-> results, imei |-> imei])
              /\ fnOut' = Some([raises |-> extract_raises(api_response, imei),
                                value |-> IF extract_raises(api_response, imei)
                                              THEN None
                                              ELSE extract_location_data(api_response, imei)])
    /\ UNCHANGED <<entry, client, coord, previous_speed, data, pc, pollLogin,
                   flow, flowInput, flowLogin, flowError, reloadPending, outcome, events,
                   nFetch, nGet, nLogin, getCreds, lastFetch, latestLogin,
                   created, setupFlow, coordinators, lastEvent>>

SpecExtract == Init /\ [][CallExtract]_vars

(***************************************************************************)
(* config_flow.py: the setup flow, and the entries it creates              *)
(***************************************************************************)
MaxEntries == 3

\* The logins of the setup flow: the account may hold a third device, and
\* two devices at once.
ThirdIMEI == "789"

SetupLoginBehaviours ==
    [page : PageOutcomes, post : PostOutcomes, dashnet : {"ok", "timeout"},
     account_info : AccountInfos,
     device_info : DeviceInfos \cup {Some({ThirdIMEI}), Some({IMEI, OtherIMEI}),
                                     Some({OtherIMEI, ThirdIMEI})}]

SetupLoginResults == { async_login(b) : b \in SetupLoginBehaviours }

\* The email and password typed into the form of the user step.
SetupEmails == {"e3"}
SetupPasswords == {"p3"}

\* The unique ids of the configured entries: async_set_unique_id(imei)
\* gives an entry the device identifier as its unique id.
ConfiguredUniqueIds ==
    {entry.data.imei} \cup { created[i].unique_id : i \in 1..Len(created) }

SetupFlowIs(step, login_data, errors) ==
    setupFlow' = [step |-> step, login_data |-> login_data, errors |-> errors]

\* As _create_device_entry, but without _abort_if_unique_id_configured.
create_device_entry_no_abort(imei, login_data) ==
    /\ Len(created) < MaxEntries
    /\ created' = Append(created,
          [unique_id |-> imei,
           data |-> EntryData(imei, login_data.email, login_data.password,
                              login_data.account_id, login_data.auth_code)])
    /\ SetupFlowIs("none", None, "")

\* _create_device_entry with self._login_data as the flow holds it.
create_device_entry(imei, login_data) ==
    IF imei \in ConfiguredUniqueIds
        THEN /\ SetupFlowIs("none", None, "already_configured")
             /\ UNCHANGED created
        ELSE /\ Len(created) < MaxEntries
             /\ created' = Append(created,
                   [unique_id |-> imei,
                    data |-> EntryData(imei, login_data.email, login_data.password,
                                       login_data.account_id, login_data.auth_code)])
             /\ SetupFlowIs("none", None, "")

main_vars == <<entry, client, coord, previous_speed, data, pc, pollLogin, flow,
               flowInput, flowLogin, flowError, reloadPending, outcome, events,
               nFetch, nGet, nLogin, getCreds, lastFetch, fnIn, fnOut, latestLogin,
               lastEvent>>

\* async_step_user without input: the form is shown.
SetupFlowStart ==
    /\ setupFlow.step = "none"
    /\ SetupFlowIs("user", None, "")
    /\ UNCHANGED <<created, coordinators>>
    /\ UNCHANGED main_vars

\* As LoginData, but without the login's account_id and auth_code.
LoginData_without_tokens(r, email, password) ==
    [account_id |-> Absent, auth_code |-> Absent,
     devices |-> r.devices, email |-> email, password |-> password]

\* self._login_data: the login's result with the email and password typed.
LoginData(r, email, password) ==
    [account_id |-> r.account_id, auth_code |-> r.auth_code,
     devices |-> r.devices, email |-> email, password |-> password]

\* async_step_user with input: the login it awaits, and what it does with
\* the result.
SetupFlowSubmit ==
    /\ setupFlow.step = "user"
    /\ \E email \in SetupEmails, password \in SetupPasswords, r \in SetupLoginResults :
          CASE r.kind = "AuthError" ->
                /\ SetupFlowIs("user", None, "invalid_auth")
                /\ UNCHANGED created
            [] r.kind = "LoginError" ->
                /\ SetupFlowIs("user", None, "cannot_connect")
                /\ UNCHANGED created
            [] r.kind = "return" /\ Cardinality(r.devices) = 1 ->
                create_device_entry(CHOOSE imei \in r.devices : TRUE,
                                    LoginData(r, email, password))
            [] r.kind = "return" /\ Cardinality(r.devices) # 1 ->
                /\ SetupFlowIs("select_device", Some(LoginData(r, email, password)), "")
                /\ UNCHANGED created
            [] OTHER ->
                /\ SetupFlowIs("user", None, "unknown")
                /\ UNCHANGED created
    /\ UNCHANGED coordinators
    /\ UNCHANGED main_vars

\* async_step_select_device with input: one of the devices offered.
SetupFlowSelect ==
    /\ setupFlow.step = "select_device"
    /\ \E imei \in setupFlow.login_data[1].devices :
          create_device_entry(imei, setupFlow.login_data[1])
    /\ UNCHANGED coordinators
    /\ UNCHANGED main_vars

\* async_setup_entry of a created entry: its Coordinator is stored under the
\* entry's id when its first refresh returns.
SetupCreated ==
    /\ \E i \in 1..Len(created), returns \in BOOLEAN :
          /\ i \notin coordinators
          /\ coordinators' = IF returns THEN coordinators \cup {i} ELSE coordinators
    /\ UNCHANGED <<created, setupFlow>>
    /\ UNCHANGED main_vars

\* async_unload_entry of a created entry.
UnloadCreated ==
    /\ \E i \in coordinators : coordinators' = coordinators \ {i}
    /\ UNCHANGED <<created, setupFlow>>
    /\ UNCHANGED main_vars

NextSetup ==
    \/ SetupFlowStart
    \/ SetupFlowSubmit
    \/ SetupFlowSelect
    \/ SetupCreated
    \/ UnloadCreated

SpecSetup == Init /\ [][NextSetup]_vars

(***************************************************************************)
(* Properties                                                              *)
(***************************************************************************)
HasLogin == ~Falsy(entry.data.email) /\ ~Falsy(entry.data.password)

\* The step on which the first fetch, the login or the retry fetch of the
\* poll hands its result to the Coordinator.
FirstFetchDone == pc = "fetch1" /\ pc' # "fetch1"
LoginDone == pc = "login" /\ pollLogin # None /\ pc' # "login"
RetryDone == pc = "fetch2" /\ pc' # "fetch2"
PollDone == pc # "idle" /\ pc' = "idle"

EntryCreds == Creds(entry.data.account_id, entry.data.auth_code)

\* C1: when the first fetch of a poll fails with AuthError and the entry
\* holds an email and a password, one login is started and no further fetch
\* yet; when that login returns, the client's and the entry's account_id and
\* auth_code become the login's, the one retry GET goes out carrying them,
\* and after the retry the poll ends: two fetches and one login in all.
C1_RefreshThenOneRetry ==
    [][ /\ (FirstFetchDone /\ lastFetch' = "AuthError" /\ HasLogin)
            => (pc' = "login" /\ nLogin' = 1 /\ nFetch' = 1)
        /\ (LoginDone /\ pollLogin[1].kind = "return")
            => /\ client' = Creds(pollLogin[1].account_id, pollLogin[1].auth_code)
               /\ EntryCreds' = client'
               /\ pc' = "fetch2"
               /\ getCreds' = client'
               /\ nFetch' = 2
               /\ nLogin' = 1
        /\ RetryDone => (pc' = "idle" /\ nFetch' = 2 /\ nLogin' = 1)
        /\ nLogin' <= 1 /\ nFetch' <= 2
        /\ (pc' = "fetch2" => nFetch' = 2)
      ]_vars

C1_Witness ==
    /\ pc = "fetch2"
    /\ nFetch = 2
    /\ nLogin = 1
    /\ client = Creds("A2", "c2")
    /\ EntryCreds = client
    /\ getCreds = client

\* C2: when the retry fetch fails, AuthError ends the poll with
\* ConfigEntryAuthFailed and any other ApiError with UpdateFailed, and the
\* poll is over with its two fetches and one login.
C2_RetryFailureEndsPoll ==
    [][ (RetryDone /\ lastFetch' \in {"AuthError", "ApiError"})
            => /\ outcome' = IF lastFetch' = "AuthError"
                                THEN "ConfigEntryAuthFailed" ELSE "UpdateFailed"
               /\ pc' = "idle"
               /\ nFetch' = 2
               /\ nGet' = 2
               /\ nLogin' = 1
      ]_vars

C2_Witness ==
    /\ pc = "idle"
    /\ nFetch = 2
    /\ lastFetch = "AuthError"
    /\ outcome = "ConfigEntryAuthFailed"

\* C3: a login of the poll that fails with AuthError ends the poll with
\* ConfigEntryAuthFailed and one that fails with LoginError with
\* UpdateFailed; no retry fetch goes out and neither the client's credentials
\* nor the entry change.
C3_LoginFailureEndsPoll ==
    [][ (LoginDone /\ pollLogin[1].kind \in {"AuthError", "LoginError"})
            => /\ outcome' = IF pollLogin[1].kind = "AuthError"
                                THEN "ConfigEntryAuthFailed" ELSE "UpdateFailed"
               /\ pc' = "idle"
               /\ nFetch' = 1
               /\ nGet' = 1
               /\ client' = client
               /\ entry' = entry
      ]_vars

C3_Witness ==
    /\ pc = "idle"
    /\ nLogin = 1
    /\ nFetch = 1
    /\ outcome = "UpdateFailed"

\* C4: when a fetch fails with AuthError and the entry lacks an email or a
\* password, the poll ends with ConfigEntryAuthFailed with no login, no retry
\* fetch and the credentials as they were.
C4_NoLoginWithoutEmailPassword ==
    [][ (FirstFetchDone /\ lastFetch' = "AuthError" /\ ~HasLogin)
            => /\ outcome' = "ConfigEntryAuthFailed"
               /\ pc' = "idle"
               /\ nLogin' = 0
               /\ nFetch' = 1
               /\ client' = client
               /\ entry' = entry
      ]_vars

C4_Witness ==
    /\ entry.version = 2
    /\ entry.data.email = Absent
    /\ pc = "idle"
    /\ lastFetch = "AuthError"
    /\ nLogin = 0
    /\ outcome = "ConfigEntryAuthFailed"

\* The speed of a snapshot, None when there is no snapshot.
SpeedOf(d) == IF d = None THEN None ELSE d[1].speed

\* The events the claim C5 expects of a poll, from the speed of the
\* snapshot before it and of the snapshot it returned.
ExpectedEvents(before, after) ==
    IF ~IsMoving(before) /\ IsMoving(after) THEN <<EVENT_MOTION_STARTED>>
    ELSE IF IsMoving(before) /\ ~IsMoving(after) THEN <<EVENT_MOTION_STOPPED>>
    ELSE <<>>

\* C5: a poll that returns fires motion-started exactly once when the speed
\* went from not moving (zero or less, or absent) in the previous poll's
\* snapshot to moving in this one's, motion-stopped exactly once on the
\* reverse, and nothing when both are in the same regime.
C5_EventsFollowSnapshotSpeed ==
    [][ (PollDone /\ outcome' = "return")
            => events' = ExpectedEvents(SpeedOf(data), SpeedOf(data'))
      ]_vars

\* C6: a poll that ends with UpdateFailed leaves the snapshot as it was, and
\* the snapshot of a Coordinator changes on no step but the return of one of
\* its polls.
C6_TransientKeepsSnapshot ==
    [][ /\ (PollDone /\ outcome' = "UpdateFailed") => data' = data
        /\ (data' # data /\ ~(coord = "loaded" /\ coord' # "loaded"))
              => (PollDone /\ outcome' = "return")
      ]_vars

C6_Witness ==
    /\ pc = "idle"
    /\ outcome = "UpdateFailed"
    /\ nFetch = 2
    /\ data # None
    /\ data[1].source = "gps"

\* C7 as stated: once a poll has ended with ConfigEntryAuthFailed (the form
\* is open from then until a re-authentication succeeds), no poll changes the
\* snapshot or the credentials before the re-authentication has succeeded.
C7_FatalBlocksPolls ==
    [][ (flow # "closed" /\ flow' # "closed" /\ (PollDone \/ LoginDone))
            => (data' = data /\ client' = client /\ EntryCreds' = EntryCreds)
      ]_vars

\* C7 as amended: a poll that ends with ConfigEntryAuthFailed leaves the
\* snapshot as it was and the form open; the form closes only on a login that
\* returned for an account holding the device, and the entry then holds the
\* submitted email and password and that login's account_id and auth_code,
\* the device as before, and a reload is scheduled; the setup of that reload
\* builds its client from the entry and its first GET carries the entry's
\* credentials.
C7_ReauthStoresAndReloads ==
    [][ /\ (PollDone /\ outcome' = "ConfigEntryAuthFailed")
            => (flow' # "closed" /\ data' = data)
        /\ (flow # "closed" /\ flow' = "closed")
            => /\ flowLogin # None
               /\ flowLogin[1].kind = "return"
               /\ entry.data.imei \in flowLogin[1].devices
               /\ entry'.data = EntryData(entry.data.imei, flowInput.email,
                                          flowInput.password,
                                          flowLogin[1].account_id,
                                          flowLogin[1].auth_code)
               /\ reloadPending'
        /\ (reloadPending /\ ~reloadPending')
            => /\ entry' = entry
               /\ coord' = "setup"
               /\ pc' = "fetch1"
               /\ client' = EntryCreds
               /\ getCreds' = EntryCreds
      ]_vars

C7_Witness ==
    /\ coord = "setup"
    /\ pc = "fetch1"
    /\ flow = "closed"
    /\ ~reloadPending
    /\ entry.data.email = "e2"
    /\ entry.data.password = "p2"
    /\ EntryCreds = Creds("A2", "c2")
    /\ getCreds = EntryCreds

C9_PollEndsInOneOfThree ==
    (pc = "idle" /\ outcome # "none")
        => /\ outcome \in {"return", "UpdateFailed", "ConfigEntryAuthFailed"}
           /\ nFetch <= 2
           /\ nLogin <= 1
           /\ nGet = nFetch

\* C10: async_login fails only with AuthError, and then the login POST was
\* rejected, or with LoginError; a login POST answered with no JSON or with
\* JSON that is no object fails with LoginError.
C10_LoginFailsOnlyWithAuthOrLoginError ==
    fnOut # None =>
        LET b == fnIn[1]
            r == fnOut[1]
        IN  /\ r.kind \in {"return", "AuthError", "LoginError"}
            /\ r.kind = "AuthError" => (b.page = "nonce" /\ b.post = "rejected")
            /\ (b.page = "nonce" /\ b.post \in {"invalidjson", "notobject"})
                => r.kind = "LoginError"

\* C11: a login issues GET login page, POST login, GET dashboard in this
\* order and a step only after every earlier step succeeded: without a nonce
\* it fails with LoginError having issued only the page GET, and a rejected
\* POST fails with AuthError having issued no dashboard GET.
C11_LoginStepsInOrder ==
    fnOut # None =>
        LET b == fnIn[1]
            r == fnOut[1]
            all == <<"GET login", "POST login", "GET dashboard">>
        IN  /\ Len(r.requests) \in 1..3
            /\ r.requests = SubSeq(all, 1, Len(r.requests))
            /\ Len(r.requests) >= 2 <=> b.page = "nonce"
            /\ Len(r.requests) = 3 <=> (b.page = "nonce" /\ b.post = "success")
            /\ b.page = "nononce"
                => (r.kind = "LoginError" /\ r.requests = <<"GET login">>)
            /\ (b.page = "nonce" /\ b.post = "rejected")
                => (r.kind = "AuthError" /\ r.requests = <<"GET login", "POST login">>)
            /\ r.kind = "return" => r.requests = all

C11_Witness ==
    /\ fnOut # None
    /\ fnIn[1].page = "nonce"
    /\ fnIn[1].post = "rejected"
    /\ fnIn[1].dashnet = "ok"
    /\ fnOut[1].kind = "AuthError"
    /\ Len(fnOut[1].requests) = 2

\* C12: _parse_js_object returns the JSON parse of the text from the brace
\* of the first `var <name> = {` to the first brace at which as many braces
\* have closed as have opened, nested objects included; it returns None when
\* there is no such assignment, no such brace, or the text is no JSON.
C12_BraceScanSelectsBalancedObject ==
    fnOut # None =>
        LET html == fnIn[1].html
            out == fnOut[1]
            starts == MatchEnds(html, fnIn[1].var_name)
            start == SetMin(starts)
            Count(c, j) == Cardinality({ k \in start..j : html[k] = c })
            closes == { j \in start..Len(html) : Count("{", j) = Count("}", j) }
        IN  /\ starts = {} => out = None
            /\ (starts # {} /\ closes = {}) => out = None
            /\ (starts # {} /\ closes # {})
                => out = json_loads(SubSeq(html, start, SetMin(closes)))
            /\ (html = <<"A", "{", "n", "{", "}", "}">> /\ fnIn[1].var_name = "A")
                => out = Some(JsonObject(Some(JsonObject(None))))
            /\ (html = <<"A", "{", "n", "}", "}">> /\ fnIn[1].var_name = "A")
                => out = None

C12_Witness ==
    /\ fnOut # None
    /\ fnIn[1].var_name = "A"
    /\ Len(fnIn[1].html) = 6
    /\ fnOut[1] = Some(JsonObject(Some(JsonObject(None))))

\* C13: when the dashboard GET is answered, the dashboard step fails with
\* LoginError exactly when account_info or device_info is missing or no
\* JSON, or account_info has no account identifier or no auth token;
\* otherwise it returns the identifier, the token and the whole device
\* mapping, also for a device_info that lists no device.
C13_DashboardFailsOnlyOnMissingData ==
    (fnOut # None /\ fnIn[1].page = "nonce" /\ fnIn[1].post = "success"
       /\ fnIn[1].dashnet = "ok") =>
        LET b == fnIn[1]
            r == fnOut[1]
            lacking == \/ b.account_info = None
                       \/ b.device_info = None
                       \/ ~Truthy(b.account_info[1].AccountID)
                       \/ ~Truthy(b.account_info[1].AuthCode)
        IN  /\ r.kind = "LoginError" <=> lacking
            /\ ~lacking
                => /\ r.kind = "return"
                   /\ r.account_id = PyStr(b.account_info[1].AccountID)
                   /\ r.auth_code = PyStr(b.account_info[1].AuthCode)
                   /\ r.devices = b.device_info[1]

\* The device record a call of extract_location_data was given, when the
\* response holds one for the device asked for and the call returned.
ExtractedDevice == fnOut # None /\ ~fnOut[1].raises /\ fnIn[1].imei = IMEI
                     /\ fnIn[1].results # None
NonEmpty(list) == list # None /\ list[1] # <<>>
CoordinatesParse(fix) == PyFloat(fix.latitude) # None /\ PyFloat(fix.longitude) # None

\* The value extract_location_data is to return for a fix and a source.
FromFix(value, fix, source) ==
    /\ value # None
    /\ value[1].source = source
    /\ Some(value[1].latitude) = PyFloat(fix.latitude)
    /\ Some(value[1].longitude) = PyFloat(fix.longitude)
    /\ value[1].speed = (IF fix.sog = Absent THEN None ELSE PyFloat(fix.sog))
    /\ value[1].course = (IF fix.cog \in {"-", "", Absent} THEN None ELSE PyFloat(fix.cog))
    /\ value[1].utc = (IF fix.UTC = Absent THEN None ELSE PyInt(fix.UTC))
    /\ value[1].quality = fix.quality

C16_FieldFailuresStayLocal ==
    (fnOut # None /\ fnIn[1].imei = IMEI /\ fnIn[1].results # None
       /\ ChosenEntry(fnIn[1].results[1]) # None) =>
        LET fix == ChosenEntry(fnIn[1].results[1])[1]
            value == fnOut[1].value
            Parsed(raw, parse) == raw # Absent /\ parse # None
        IN  /\ ~fnOut[1].raises
            /\ value = None <=> ~CoordinatesParse(fix)
            /\ value # None =>
                  /\ Some(value[1].latitude) = PyFloat(fix.latitude)
                  /\ Some(value[1].longitude) = PyFloat(fix.longitude)
                  /\ value[1].speed # None <=> Parsed(fix.sog, PyFloat(fix.sog))
                  /\ value[1].course # None
                        <=> (fix.cog \notin {"-", ""} /\ Parsed(fix.cog, PyFloat(fix.cog)))
                  /\ value[1].utc # None <=> Parsed(fix.UTC, PyInt(fix.UTC))
                  /\ value[1].quality = fix.quality

\* C17: a chosen fix whose course is "-", the empty string or missing gives
\* an absent course, never 0, and the course "0" gives the heading 0.
C17_CourseMarkerIsAbsentNotZero ==
    (ExtractedDevice /\ fnOut[1].value # None) =>
        LET fix == ChosenEntry(fnIn[1].results[1])[1]
            course == fnOut[1].value[1].course
        IN  /\ fix.cog \in {"-", "", Absent} => (course = None /\ course # Some(0))
            /\ fix.cog = "0" => course = Some(0)

C17_Witness ==
    /\ ExtractedDevice
    /\ fnOut[1].value # None
    /\ ChosenEntry(fnIn[1].results[1])[1].cog = "-"
    /\ ChosenEntry(fnIn[1].results[1])[1].sog = "0"
    /\ fnOut[1].value[1].course = None
    /\ fnOut[1].value[1].speed = Some(0)

\* C18: the login of a poll, when it returns, puts its account identifier
\* and its auth token together into the client and into the entry and
\* leaves the entry's device identifier, email, password, device name and
\* version as they are; when it fails, and on the return of a fetch, the
\* client and the entry stay as they are; no step changes the device
\* identifier.
C18_RefreshReplacesBothTokensOnly ==
    [][/\ entry'.data.imei = entry.data.imei
       /\ LoginDone =>
            IF pollLogin[1].kind = "return"
                THEN /\ client' = Creds(pollLogin[1].account_id, pollLogin[1].auth_code)
                     /\ entry' = [entry EXCEPT
                                    !.data.account_id = pollLogin[1].account_id,
                                    !.data.auth_code = pollLogin[1].auth_code]
                ELSE client' = client /\ entry' = entry
       /\ (FirstFetchDone \/ RetryDone) => (client' = client /\ entry' = entry)]_vars

C18_Witness ==
    /\ pc = "fetch2"
    /\ client = Creds("A1", "c1")
    /\ EntryCreds = client
    /\ entry.data.imei = IMEI
    /\ entry.data.email = "e2"
    /\ entry.data.password = "p2"
    /\ entry.data.device_name = DeviceName

\* C19: whenever no answered login is on its way back to the poll or to the
\* re-authentication flow, the entry's account identifier and auth token are
\* those of the login the vendor answered last: no older login's result
\* overwrites a newer one's.
C19_StoredCredentialsAreLatestLogin ==
    (pollLogin = None /\ flowLogin = None /\ latestLogin # NoCreds)
        => EntryCreds = latestLogin

\* C20: no two configuration entries have the same device identifier, an
\* entry's unique id is its device identifier, and hass.data holds
\* Coordinators only for entries that exist, one each; a setup flow that
\* reaches a device already configured creates nothing.
C20_OneEntryPerDevice ==
    /\ \A i \in 1..Len(created) :
          /\ created[i].data.imei # entry.data.imei
          /\ created[i].unique_id = created[i].data.imei
          /\ \A j \in 1..Len(created) :
                created[i].data.imei = created[j].data.imei => i = j
    /\ coordinators \subseteq 1..Len(created)

C20_Witness ==
    /\ Len(created) = 2
    /\ created[1].data.imei = OtherIMEI
    /\ created[2].data.imei = ThirdIMEI
    /\ coordinators = {1, 2}
    /\ setupFlow.step = "none"
    /\ setupFlow.errors = "already_configured"

C22_MotionEventsAlternate ==
    [][PollDone =>
         /\ Len(events') <= 1
         /\ events' = <<EVENT_MOTION_STARTED>>
              => (lastEvent # EVENT_MOTION_STARTED /\ lastEvent' = EVENT_MOTION_STARTED)
         /\ events' = <<EVENT_MOTION_STOPPED>>
              => (lastEvent = EVENT_MOTION_STARTED /\ lastEvent' = EVENT_MOTION_STOPPED)
         /\ events' = <<>> => lastEvent' = lastEvent
         /\ (outcome' # "return" \/ data' = Some(EmptyData))
              => (events' = <<>> /\ previous_speed' = previous_speed)]_vars

C22_Witness ==
    /\ pc = "idle"
    /\ outcome = "return"
    /\ data = Some(EmptyData)
    /\ lastEvent = EVENT_MOTION_STARTED
    /\ previous_speed = Some(5)
    /\ events = <<>>

\* SolidGPSMovingSensor.is_on over the Coordinator's snapshot: None without a
\* snapshot, False when the snapshot has no speed, else speed > 0.
is_on(coordinator_data) ==
    IF coordinator_data = None THEN None
    ELSE IF coordinator_data[1].speed = None THEN Some(FALSE)
    ELSE Some(coordinator_data[1].speed[1] > 0)

\* C23: between two consecutive returned polls (a poll without data for the
\* device included), whenever the moving sensor goes from on to off a
\* motion-stopped event was fired in the later poll, and whenever it goes
\* from off or unknown to on a motion-started event was fired in it.
C23_SensorAgreesWithEvents ==
    [][ (PollDone /\ outcome' = "return")
            => /\ (is_on(data) = Some(TRUE) /\ is_on(data') = Some(FALSE))
                    => events' = <<EVENT_MOTION_STOPPED>>
               /\ (is_on(data) # Some(TRUE) /\ is_on(data') = Some(TRUE))
                    => events' = <<EVENT_MOTION_STARTED>>
      ]_vars

\* The step in which async_step_reauth_confirm handles the result of its
\* login.
ReauthDone == flow = "login" /\ flowLogin # None /\ flow' # "login"

\* The error the form shows for a login result that does not update the
\* entry, "" for a result that does.
ReauthError(r) ==
    CASE r.kind = "AuthError" -> "invalid_auth"
      [] r.kind = "LoginError" -> "cannot_connect"
      [] r.kind \notin {"return", "AuthError", "LoginError"} -> "unknown"
      [] OTHER -> IF entry.data.imei \in r.devices THEN "" ELSE "device_not_found"

\* C24: the re-authentication flow updates the entry (email, password,
\* account_id and auth_code together, the rest as it was) only when its login
\* returned and the entry's device is among the account's devices; on
\* AuthError, LoginError, any other error, or a device not in the account,
\* the entry stays exactly as it was and the form is shown again with the
\* error; no other step changes the entry's email or password.
C24_ReauthUpdatesOnlyOnOwnDevice ==
    [][ /\ ReauthDone =>
              IF ReauthError(flowLogin[1]) = ""
                  THEN /\ entry' = [entry EXCEPT
                                      !.data.email = flowInput.email,
                                      !.data.password = flowInput.password,
                                      !.data.account_id = flowLogin[1].account_id,
                                      !.data.auth_code = flowLogin[1].auth_code]
                       /\ flow' = "closed"
                  ELSE /\ entry' = entry
                       /\ flow' = "form"
                       /\ flowError' = ReauthError(flowLogin[1])
        /\ (entry'.data.email # entry.data.email
              \/ entry'.data.password # entry.data.password)
              => (ReauthDone /\ ReauthError(flowLogin[1]) = "")
      ]_vars

C24_Witness ==
    /\ flow = "form"
    /\ flowError = "device_not_found"
    /\ entry.data.email = "e2"

\* The errors async_step_user shows for a login that failed.
SetupLoginErrors == {"invalid_auth", "cannot_connect", "unknown"}

\* The entry e holds the device imei and the email, password, account_id and
\* auth_code of the login data l.
CreatedFrom(e, imei, l) ==
    /\ e.unique_id = imei
    /\ e.data = EntryData(imei, l.email, l.password, l.account_id, l.auth_code)

\* C25: the setup flow creates an entry, one at a time, only from a login
\* that returned and only for a device of that login's account, holding that
\* login's account_id and auth_code and the email and password typed: in the
\* user step when the account has exactly one device, in the device-selection
\* step otherwise, which is entered only from the user step with a returned
\* login whose number of devices is not one; a failed login creates nothing
\* and shows the user form again with its error.
C25_EntryOnlyFromSuccessfulLogin ==
    [][ /\ created' # created =>
              /\ Len(created') = Len(created) + 1
              /\ SubSeq(created', 1, Len(created)) = created
              /\ setupFlow'.step = "none"
              /\ LET e == created'[Len(created')] IN
                    \/ /\ setupFlow.step = "user"
                       /\ \E r \in SetupLoginResults, email \in SetupEmails,
                             password \in SetupPasswords :
                             /\ r.kind = "return"
                             /\ r.devices = {e.data.imei}
                             /\ CreatedFrom(e, e.data.imei,
                                    [email |-> email, password |-> password,
                                     account_id |-> r.account_id,
                                     auth_code |-> r.auth_code])
                    \/ /\ setupFlow.step = "select_device"
                       /\ Cardinality(setupFlow.login_data[1].devices) # 1
                       /\ e.data.imei \in setupFlow.login_data[1].devices
                       /\ CreatedFrom(e, e.data.imei, setupFlow.login_data[1])
        /\ (setupFlow'.step = "select_device" /\ setupFlow.step # "select_device") =>
              /\ setupFlow.step = "user"
              /\ created' = created
              /\ \E r \in SetupLoginResults, email \in SetupEmails,
                    password \in SetupPasswords :
                    /\ r.kind = "return"
                    /\ Cardinality(r.devices) # 1
                    /\ setupFlow'.login_data =
                          Some([account_id |-> r.account_id, auth_code |-> r.auth_code,
                                devices |-> r.devices, email |-> email,
                                password |-> password])
        /\ (setupFlow.step = "user" /\ setupFlow' # setupFlow) =>
              \/ /\ setupFlow'.step = "user"
                 /\ setupFlow'.errors \in SetupLoginErrors
                 /\ created' = created
              \/ /\ setupFlow'.step = "select_device"
                 /\ created' = created
              \/ /\ setupFlow'.step = "none"
                 /\ \/ created' # created
                    \/ setupFlow'.errors = "already_configured"
        /\ setupFlow'.errors \in SetupLoginErrors =>
              (setupFlow'.step = "user" /\ created' = created)
      ]_vars

C25_Witness ==
    /\ Len(created) = 2
    /\ created[1].data.imei = ThirdIMEI
    /\ created[2].data.imei = OtherIMEI
    /\ created[2].data.email = "e3"
    /\ created[2].data.account_id # Absent
    /\ setupFlow.step = "user"
    /\ setupFlow.errors = "invalid_auth"

(***************************************************************************)
(* device_tracker.py: SolidGPSTracker over the Coordinator's snapshot      *)
(***************************************************************************)
\* What reading a property gives: the value returned, or the exception.
Returns(value) == [raises |-> "", value |-> value]
Raises(exc) == [raises |-> exc, value |-> None]

\* The keys the tracker reads from the snapshot.
TrackerKeys == {"latitude", "longitude", "speed", "course", "quality", "source", "utc"}

\* coordinator.data.get(key): the snapshot is a SolidGPSData, a dataclass
\* that defines its fields and no get method, so the attribute lookup fails.
data_get(snapshot, key) == Raises("AttributeError")

\* SolidGPSTracker.latitude
tracker_latitude(coordinator_data) ==
    IF coordinator_data = None THEN Returns(None)
    ELSE data_get(coordinator_data[1], "latitude")

\* SolidGPSTracker.longitude
tracker_longitude(coordinator_data) ==
    IF coordinator_data = None THEN Returns(None)
    ELSE data_get(coordinator_data[1], "longitude")

\* SolidGPSTracker.extra_state_attributes: the attributes by key, None for
\* a key left out; the fix time as the ISO text of its timestamp.
tracker_extra_state_attributes(coordinator_data) ==
    IF coordinator_data = None THEN Returns(None)
    ELSE LET got == [k \in TrackerKeys |-> data_get(coordinator_data[1], k)]
         IN  IF \E k \in {"speed", "course", "quality", "source", "utc"} :
                    got[k].raises # ""
                 THEN Raises("AttributeError")
                 ELSE Returns(Some(
                        [speed |-> got["speed"].value,
                         course |-> got["course"].value,
                         gps_quality |-> got["quality"].value,
                         location_source |-> got["source"].value,
                         last_gps_update |->
                            IF got["utc"].value = None THEN None
                            ELSE Some(<<"isoformat", got["utc"].value[1]>>)]))

\* The attributes the claim C26 expects for a snapshot.
ExpectedAttributes(snapshot) ==
    [speed |-> snapshot.speed,
     course |-> snapshot.course,
     gps_quality |-> snapshot.quality,
     location_source |-> snapshot.source,
     last_gps_update |-> IF snapshot.utc = None THEN None
                         ELSE Some(<<"isoformat", snapshot.utc[1]>>)]

\* C26: in every state of the Coordinator's snapshot, reading the tracker's
\* latitude, longitude and extra attributes raises nothing; without a
\* snapshot they are absent, and with one the latitude and longitude are the
\* snapshot's and the attributes are the snapshot's non-absent speed, course,
\* quality, source and fix time.
C26_TrackerReadsSnapshot ==
    /\ tracker_latitude(data).raises = ""
    /\ tracker_longitude(data).raises = ""
    /\ tracker_extra_state_attributes(data).raises = ""
    /\ data = None =>
          /\ tracker_latitude(data).value = None
          /\ tracker_longitude(data).value = None
          /\ tracker_extra_state_attributes(data).value = None
    /\ data # None =>
          /\ tracker_latitude(data).value = data[1].latitude
          /\ tracker_longitude(data).value = data[1].longitude
          /\ tracker_extra_state_attributes(data).value
                = Some(ExpectedAttributes(data[1]))

====
